---- MODULE Spec2Model ----
(***************************************************************************)
(* Model of the segNet Python binding (python/bindings/PySegNet.cpp).      *)
(*                                                                         *)
(* One wrapper object (PySegNet_Object) is driven by a single caller.      *)
(* Each handler (PySegNet_Init, PySegNet_Process, PySegNet_Overlay) runs   *)
(* to completion as one action.  The native engine factory, the native     *)
(* engine operations, malloc and the CUDA pointer bridge are collaborators *)
(* whose results are chosen nondeterministically; every call a handler     *)
(* makes to them is appended to the call log of that handler.              *)
(***************************************************************************)
EXTENDS Integers, Sequences, FiniteSets, TLC

VARIABLES net, baseNet, created, op, args, ret, err, calls, argvAlloc, argvLive

vars == <<net, baseNet, created, op, args, ret, err, calls, argvAlloc, argvLive>>

----------------------------------------------------------------------------
(* Bounds of the model *)

MaxArgc == 2
MaxEngines == 1
MaxDim == 2
MaxPtr == 1

----------------------------------------------------------------------------
(* Values *)

NULL == 0

\* Python objects handed to the handlers, as far as the format units of
\* PyArg_ParseTupleAndKeywords / PyArg_Parse distinguish them.
Absent == [t |-> "absent", s |-> "", i |-> 0]
Other == [t |-> "other", s |-> "", i |-> 0]
PyStr(x) == [t |-> "str", s |-> x, i |-> 0]
PyInt(x) == [t |-> "int", s |-> "", i |-> x]
PyCapsule(p) == [t |-> "capsule", s |-> "", i |-> p]

\* The argv argument: not passed, a list of items, or a non-list sequence.
NoArgv == [t |-> "absent", items |-> <<>>]
ListOf(l) == [t |-> "list", items |-> l]
TupleOf(l) == [t |-> "tuple", items |-> l]

NoArgs == [network |-> Absent, argv |-> NoArgv, image |-> Absent, width |-> Absent, height |-> Absent, mask |-> Absent]

\* Return values of the handlers
RetNull == [kind |-> "null", code |-> 0, items |-> <<>>]
RetInt(c) == [kind |-> "int", code |-> c, items |-> <<>>]
RetTuple(l) == [kind |-> "tuple", code |-> 0, items |-> l]

\* Messages passed to PyErr_SetString
NoError == "none"
ERR_INIT_PARSE == "segNet.__init()__ failed to parse args tuple"
ERR_ARGV_EMPTY == "segNet.__init()__ argv list was empty"
ERR_ARGV_MALLOC == "segNet.__init()__ failed to malloc memory for argv list"
ERR_ARGV_PARSE == "segNet.__init()__ failed to parse argv list"
ERR_BAD_NETWORK == "detectNet invalid built-in network was requested"
ERR_LOAD == "segNet failed to load network"
ERR_INSTANCE == "segNet invalid object instance"
ERR_PROCESS_PARSE == "segNet.Process() failed to parse args tuple"
ERR_DIMS == "segNet.Process() image dimensions are invalid"
ERR_POINTER == "segNet.Process() failed to get image pointer from PyCapsule container"
ERR_PROCESS == "segNet.Process() encountered an error classifying the image"
ERR_OVERLAY == "segNet.Overlay() encountered an error classifying the image"

\* Error kinds of the specification (section 7)
ErrorKind(m) ==
    CASE m = ERR_INSTANCE -> "InvalidState"
      [] m \in {ERR_INIT_PARSE, ERR_ARGV_EMPTY, ERR_ARGV_PARSE, ERR_BAD_NETWORK, ERR_PROCESS_PARSE, ERR_DIMS, ERR_POINTER} -> "InvalidArgument"
      [] m \in {ERR_ARGV_MALLOC, ERR_LOAD} -> "ConstructionError"
      [] m \in {ERR_PROCESS, ERR_OVERLAY} -> "OperationError"
      [] OTHER -> "None"

----------------------------------------------------------------------------
(* Collaborators *)

DefaultNetwork == "aerial-fpv"
SEGNET_CUSTOM == "SEGNET_CUSTOM"

\* segNet::NetworkTypeFromStr
NetworkTypeFromStr(name) ==
    CASE name = "aerial-fpv" -> "FCN_ALEXNET_AERIAL_FPV_720p"
      [] name = "cityscapes-hd" -> "FCN_ALEXNET_CITYSCAPES_HD"
      [] OTHER -> SEGNET_CUSTOM

\* PyCUDA_GetPointer
PyCUDA_GetPointer(capsule) == IF capsule.t = "capsule" THEN capsule.i ELSE NULL

\* the "p" format unit: truth value of the object
Truthy(o) ==
    CASE o.t = "int" -> o.i # 0
      [] o.t = "str" -> o.s # ""
      [] o.t = "capsule" -> TRUE
      [] OTHER -> FALSE

PYLONG_FROM_LONG(x) == x

\* entries of the call log
CallGetPointer(o, r) == [f |-> "GetPointer", obj |-> o, r |-> r]
CallNetworkTypeFromStr(name, r) == [f |-> "NetworkTypeFromStr", name |-> name, r |-> r]
CallCreateArgv(argc, argv, r) == [f |-> "Create_argv", argc |-> argc, argv |-> argv, r |-> r]
CallCreateType(type, r) == [f |-> "Create_type", type |-> type, r |-> r]
CallNative(f, n, p, w, h, r) == [f |-> f, self |-> n, ptr |-> p, w |-> w, h |-> h, r |-> r]

----------------------------------------------------------------------------
(* PySegNet_Init *)

InitResult(n, b, code, e, c, alloc, live) ==
    [net |-> n, baseNet |-> b, ret |-> RetInt(code), err |-> e, calls |-> c, argvAlloc |-> alloc, argvLive |-> live]

\* lines 230-239: confirm the network loaded, then publish it in the base object
Init_Confirm(n, b, c, alloc, live) ==
    IF n = NULL
    THEN InitResult(n, b, -1, ERR_LOAD, c, alloc, live)
    ELSE InitResult(n, n, 0, NoError, c, alloc, live)

\* variant: the built-in path without the SEGNET_CUSTOM test
Init_Builtin_NoCustomTest(n0, b0, network, h) ==
    LET networkType == NetworkTypeFromStr(network)
        c1 == <<CallNetworkTypeFromStr(network, networkType)>>
    IN  Init_Confirm(h, b0, Append(c1, CallCreateType(networkType, h)), FALSE, FALSE)

\* lines 212-228: built-in network
Init_Builtin(n0, b0, network, h) ==
    LET networkType == NetworkTypeFromStr(network)
        c1 == <<CallNetworkTypeFromStr(network, networkType)>>
    IN  IF networkType = SEGNET_CUSTOM
        THEN InitResult(n0, b0, -1, ERR_BAD_NETWORK, c1, FALSE, FALSE)
        ELSE Init_Confirm(h, b0, Append(c1, CallCreateType(networkType, h)), FALSE, FALSE)

\* PyArg_Parse(item, "s", &argv[n])
ItemParses(item) == item.t = "str"

\* index of the first item of the list that PyArg_Parse rejects, 0 if none
FirstBadItem(items) ==
    IF \E k \in 1..Len(items) : ~ItemParses(items[k])
    THEN CHOOSE k \in 1..Len(items) : ~ItemParses(items[k]) /\ \A j \in 1..(k-1) : ItemParses(items[j])
    ELSE 0

\* lines 173-211: argv command line
Init_Argv(n0, b0, items, mallocOk, h) ==
    LET argc == Len(items)
        argv == [k \in 1..argc |-> items[k].s]
    IN  IF argc = 0
        THEN InitResult(n0, b0, -1, ERR_ARGV_EMPTY, <<>>, FALSE, FALSE)
        ELSE IF ~mallocOk
        THEN InitResult(n0, b0, -1, ERR_ARGV_MALLOC, <<>>, FALSE, FALSE)
        ELSE IF FirstBadItem(items) # 0
        THEN InitResult(n0, b0, -1, ERR_ARGV_PARSE, <<>>, TRUE, TRUE)
        ELSE Init_Confirm(h, b0, <<CallCreateArgv(argc, argv, h)>>, TRUE, FALSE)

\* variant: the argv path taken only for two or more items
UseArgv_OffByOne(argList) == argList.t # "absent" /\ argList.t = "list" /\ Len(argList.items) > 1

\* line 172: argList != NULL && PyList_Check(argList) && PyList_Size(argList) > 0
UseArgv(argList) == argList.t # "absent" /\ argList.t = "list" /\ Len(argList.items) > 0

\* line 165: PyArg_ParseTupleAndKeywords(args, kwds, "|sO", ...)
InitArgsParse(a) == a.network.t \in {"absent", "str"}

\* lines 155-240
PySegNet_Init(n0, b0, a, mallocOk, h) ==
    LET network == IF a.network.t = "absent" THEN DefaultNetwork ELSE a.network.s
    IN  IF ~InitArgsParse(a)
        THEN InitResult(n0, b0, -1, ERR_INIT_PARSE, <<>>, FALSE, FALSE)
        ELSE IF UseArgv(a.argv)
        THEN Init_Argv(n0, b0, a.argv.items, mallocOk, h)
        ELSE Init_Builtin(n0, b0, network, h)

----------------------------------------------------------------------------
(* PySegNet_Process *)

OpResult(r, e, c) == [ret |-> r, err |-> e, calls |-> c]

\* variant: the result of the native call is ignored
Process_Run_IgnoreResult(n, img, width, height, c, success) ==
    LET c1 == Append(c, CallNative("Process", n, img, width, height, success))
    IN  OpResult(RetTuple(<<PYLONG_FROM_LONG(2)>>), NoError, c1)

\* lines 285-301
Process_Run(n, img, width, height, c, success) ==
    LET c1 == Append(c, CallNative("Process", n, img, width, height, success))
    IN  IF ~success
        THEN OpResult(RetNull, ERR_PROCESS, c1)
        ELSE OpResult(RetTuple(<<PYLONG_FROM_LONG(2)>>), NoError, c1)

\* lines 272-279
Process_Pointer(n, capsule, width, height, success) ==
    LET img == PyCUDA_GetPointer(capsule)
        c1 == <<CallGetPointer(capsule, img)>>
    IN  IF img = NULL
        THEN OpResult(RetNull, ERR_POINTER, c1)
        ELSE Process_Run(n, img, width, height, c1, success)

\* variant: zero dimensions accepted
Process_Dims_AcceptZero(n, capsule, width, height, success) ==
    IF width < 0 \/ height < 0
    THEN OpResult(RetNull, ERR_DIMS, <<>>)
    ELSE Process_Pointer(n, capsule, width, height, success)

\* lines 265-270
Process_Dims(n, capsule, width, height, success) ==
    IF width <= 0 \/ height <= 0
    THEN OpResult(RetNull, ERR_DIMS, <<>>)
    ELSE Process_Pointer(n, capsule, width, height, success)

\* line 259: PyArg_ParseTupleAndKeywords(args, kwds, "Oii|", ...)
ProcessArgsParse(a) == a.image.t # "absent" /\ a.width.t = "int" /\ a.height.t = "int"

\* lines 243-302
PySegNet_Process(n, a, success) ==
    IF n = NULL
    THEN OpResult(RetNull, ERR_INSTANCE, <<>>)
    ELSE IF ~ProcessArgsParse(a)
    THEN OpResult(RetNull, ERR_PROCESS_PARSE, <<>>)
    ELSE Process_Dims(n, a.image, a.width.i, a.height.i, success)

----------------------------------------------------------------------------
(* PySegNet_Overlay *)

\* lines 350-374
Overlay_Run(n, img, width, height, mask, c, success) ==
    LET c1 == Append(c, CallNative(IF mask > 0 THEN "Mask" ELSE "Overlay", n, img, width, height, success))
    IN  IF ~success
        THEN OpResult(RetNull, ERR_OVERLAY, c1)
        ELSE OpResult(RetTuple(<<PYLONG_FROM_LONG(2)>>), NoError, c1)

\* variant: the extracted pointer is not tested
Overlay_Pointer_NoNullTest(n, capsule, width, height, mask, success) ==
    LET img == PyCUDA_GetPointer(capsule)
        c1 == <<CallGetPointer(capsule, img)>>
    IN  Overlay_Run(n, img, width, height, mask, c1, success)

\* lines 336-343
Overlay_Pointer(n, capsule, width, height, mask, success) ==
    LET img == PyCUDA_GetPointer(capsule)
        c1 == <<CallGetPointer(capsule, img)>>
    IN  IF img = NULL
        THEN OpResult(RetNull, ERR_POINTER, c1)
        ELSE Overlay_Run(n, img, width, height, mask, c1, success)

\* lines 329-334
Overlay_Dims(n, capsule, width, height, mask, success) ==
    IF width <= 0 \/ height <= 0
    THEN OpResult(RetNull, ERR_DIMS, <<>>)
    ELSE Overlay_Pointer(n, capsule, width, height, mask, success)

\* line 323: PyArg_ParseTupleAndKeywords(args, kwds, "Oiip|", ...): the "|"
\* follows the last format unit, so all four arguments are required
OverlayArgsParse(a) ==
    a.image.t # "absent" /\ a.width.t = "int" /\ a.height.t = "int" /\ a.mask.t # "absent"

\* variant: the engine handle is not tested
PySegNet_Overlay_NoInstanceTest(n, a, success) ==
    IF ~OverlayArgsParse(a)
    THEN OpResult(RetNull, ERR_PROCESS_PARSE, <<>>)
    ELSE Overlay_Dims(n, a.image, a.width.i, a.height.i, IF Truthy(a.mask) THEN 1 ELSE 0, success)

\* lines 306-375
PySegNet_Overlay(n, a, success) ==
    IF n = NULL
    THEN OpResult(RetNull, ERR_INSTANCE, <<>>)
    ELSE IF ~OverlayArgsParse(a)
    THEN OpResult(RetNull, ERR_PROCESS_PARSE, <<>>)
    ELSE Overlay_Dims(n, a.image, a.width.i, a.height.i, IF Truthy(a.mask) THEN 1 ELSE 0, success)

----------------------------------------------------------------------------
(* Inputs *)

Names == {"cityscapes-hd", "bogus"}
NetworkArgs == {Absent, Other} \cup {PyStr(x) : x \in Names}

Items == {PyStr("--a"), PyStr("--b"), PyInt(7)}
ItemSeqs == UNION {[1..k -> Items] : k \in 0..MaxArgc}
ArgvArgs == {NoArgv} \cup {ListOf(l) : l \in ItemSeqs} \cup {TupleOf(<<PyStr("--a")>>)}

ImageArgs == {Other} \cup {PyCapsule(p) : p \in 1..MaxPtr}
DimArgs == {Other} \cup {PyInt(x) : x \in (-1)..MaxDim}
MaskArgs == {Absent, PyInt(-1), PyInt(0), PyInt(1)}

----------------------------------------------------------------------------
(* State machine *)

Init ==
    /\ net = NULL
    /\ baseNet = NULL
    /\ created = 0
    /\ op = "new"
    /\ args = NoArgs
    /\ ret = RetNull
    /\ err = NoError
    /\ calls = <<>>
    /\ argvAlloc = FALSE
    /\ argvLive = FALSE

\* segNet::Create returns a new engine or NULL; it is not reached when malloc fails
FactoryResults(mallocOk) == {NULL} \cup (IF mallocOk /\ created < MaxEngines THEN {created + 1} ELSE {})

Construct ==
    \E nw \in NetworkArgs, av \in ArgvArgs, mallocOk \in BOOLEAN : \E h \in FactoryResults(mallocOk) :
        LET a == [NoArgs EXCEPT !.network = nw, !.argv = av]
            r == PySegNet_Init(net, baseNet, a, mallocOk, h)
        IN  /\ op' = "Init"
            /\ args' = a
            /\ net' = r.net
            /\ baseNet' = r.baseNet
            /\ ret' = r.ret
            /\ err' = r.err
            /\ calls' = r.calls
            /\ argvAlloc' = r.argvAlloc
            /\ argvLive' = r.argvLive
            /\ created' = IF \E k \in 1..Len(r.calls) : r.calls[k].f \in {"Create_argv", "Create_type"} /\ r.calls[k].r # NULL
                          THEN created + 1 ELSE created

Process ==
    \E im \in ImageArgs, w \in DimArgs, ht \in DimArgs, success \in BOOLEAN :
        LET a == [NoArgs EXCEPT !.image = im, !.width = w, !.height = ht]
            r == PySegNet_Process(net, a, success)
        IN  /\ op' = "Process"
            /\ args' = a
            /\ ret' = r.ret
            /\ err' = r.err
            /\ calls' = r.calls
            /\ argvAlloc' = FALSE
            /\ argvLive' = FALSE
            /\ UNCHANGED <<net, baseNet, created>>

Overlay ==
    \E im \in ImageArgs, w \in DimArgs, ht \in DimArgs, m \in MaskArgs, success \in BOOLEAN :
        LET a == [NoArgs EXCEPT !.image = im, !.width = w, !.height = ht, !.mask = m]
            r == PySegNet_Overlay(net, a, success)
        IN  /\ op' = "Overlay"
            /\ args' = a
            /\ ret' = r.ret
            /\ err' = r.err
            /\ calls' = r.calls
            /\ argvAlloc' = FALSE
            /\ argvLive' = FALSE
            /\ UNCHANGED <<net, baseNet, created>>

Next == Construct \/ Process \/ Overlay

Spec == Init /\ [][Next]_vars

----------------------------------------------------------------------------
(* Properties *)

NativeOps == {"Process", "Overlay", "Mask"}
NativeCalls == {k \in 1..Len(calls) : calls[k].f \in NativeOps}
IsOperation == op \in {"Process", "Overlay"}
DimsGiven == args.width.t = "int" /\ args.height.t = "int"
DimsPositive == DimsGiven /\ args.width.i > 0 /\ args.height.i > 0
OperationArgsGiven == args.image.t # "absent" /\ DimsGiven /\ (op = "Overlay" => args.mask.t # "absent")
Failed(kind) == ret = RetNull /\ ErrorKind(err) = kind
ArgvListGiven == args.argv.t = "list" /\ Len(args.argv.items) > 0
NetworkName == IF args.network.t = "absent" THEN DefaultNetwork ELSE args.network.s

\* C1: on a wrapper whose engine handle is null, Process and Overlay fail
\* with the invalid-instance error for all arguments and call neither the
\* native engine nor the pointer bridge.
C1_NullHandleRejected ==
    (IsOperation /\ net = NULL) =>
        /\ err = ERR_INSTANCE
        /\ Failed("InvalidState")
        /\ calls = <<>>

\* a wrapper left with a null handle by a failed construct is asked to
\* render a valid image
C1_Witness ==
    /\ op = "Overlay" /\ net = NULL /\ created > 0
    /\ args.image.t = "capsule" /\ DimsPositive /\ args.mask.t = "int"
    /\ err = ERR_INSTANCE

\* C2: a construct call that fails leaves the engine handle null, whatever
\* the wrapper held before the call.
C2_FailedConstructLeavesNull ==
    (op = "Init" /\ ret.code = -1) => net = NULL

\* C3: with a non-null engine handle and width <= 0 or height <= 0, Process
\* and Overlay fail with the invalid-argument error (the dimension message
\* when the arguments parse) and make no native engine call.
C3_BadDimsRejected ==
    (IsOperation /\ net # NULL /\ DimsGiven /\ (args.width.i <= 0 \/ args.height.i <= 0)) =>
        /\ Failed("InvalidArgument")
        /\ OperationArgsGiven => err = ERR_DIMS
        /\ NativeCalls = {}

\* Process with a valid image, a zero width and a positive height
C3_Witness ==
    /\ op = "Process" /\ net # NULL
    /\ args.image.t = "capsule" /\ DimsGiven /\ args.width.i = 0 /\ args.height.i > 0
    /\ err = ERR_DIMS

\* C4: with a non-empty argument list, construct never resolves the network
\* name and never calls Create(networkType); every Create(argc, argv) call
\* gets the list length and the items in list order, and a successful
\* construct made exactly that one factory call.
C4_ArgvTakesPrecedence ==
    (op = "Init" /\ ArgvListGiven) =>
        /\ \A k \in 1..Len(calls) :
              /\ calls[k].f = "Create_argv"
              /\ calls[k].argc = Len(args.argv.items)
              /\ calls[k].argv = [j \in 1..Len(args.argv.items) |-> args.argv.items[j].s]
        /\ ret.code = 0 => (Len(calls) = 1 /\ net = calls[1].r)

\* a two-item list together with a name that resolves to the custom
\* sentinel constructs an engine
C4_Witness ==
    /\ op = "Init" /\ ArgvListGiven /\ ret.code = 0
    /\ args.argv.items = <<PyStr("--b"), PyStr("--a")>>
    /\ args.network.t = "str" /\ NetworkTypeFromStr(args.network.s) = SEGNET_CUSTOM
    /\ net # NULL

\* C5: without an argument list (or with an empty one), a network name that
\* resolves to the custom sentinel makes construct fail with the
\* invalid-argument error without calling either factory.
C5_CustomNameRejected ==
    (/\ op = "Init"
     /\ args.network.t \in {"absent", "str"}
     /\ (args.argv.t = "absent" \/ (args.argv.t = "list" /\ args.argv.items = <<>>))
     /\ NetworkTypeFromStr(NetworkName) = SEGNET_CUSTOM) =>
        /\ ret = RetInt(-1)
        /\ err = ERR_BAD_NETWORK
        /\ ErrorKind(err) = "InvalidArgument"
        /\ \A k \in 1..Len(calls) : calls[k].f \notin {"Create_argv", "Create_type"}

\* an unknown name with an empty argument list
C5_Witness ==
    /\ op = "Init" /\ args.network = PyStr("bogus") /\ args.argv = ListOf(<<>>)
    /\ err = ERR_BAD_NETWORK

\* C6: on a constructed wrapper, Process with a valid image and positive
\* dimensions calls native Process exactly once with the extracted pointer
\* and the same dimensions, returns the tuple (2,) exactly when that call
\* reports true, and fails with the operation error when it reports false.
C6_ProcessDispatch ==
    (op = "Process" /\ net # NULL /\ args.image.t = "capsule" /\ DimsPositive) =>
        /\ Cardinality(NativeCalls) = 1
        /\ Len(calls) = 2
        /\ calls[1].f = "GetPointer"
        /\ calls[2].f = "Process"
        /\ calls[2].self = net
        /\ calls[2].ptr = args.image.i
        /\ calls[2].w = args.width.i
        /\ calls[2].h = args.height.i
        /\ (ret = RetTuple(<<2>>)) <=> (calls[2].r = TRUE)
        /\ calls[2].r = TRUE => err = NoError
        /\ calls[2].r = FALSE => (Failed("OperationError") /\ err = ERR_PROCESS)

\* a Process call with distinct width and height that the engine rejects
C6_Witness ==
    /\ op = "Process" /\ net # NULL /\ args.image.t = "capsule" /\ DimsPositive
    /\ args.width.i # args.height.i
    /\ Len(calls) = 2 /\ calls[2].r = FALSE

\* C7: on a constructed wrapper with a valid image and positive dimensions,
\* Overlay makes exactly one native call: Mask when the mask flag is given
\* and > 0, Overlay when it is 0 or omitted; the outcome follows that call.
C7_OverlayDispatch ==
    (op = "Overlay" /\ net # NULL /\ args.image.t = "capsule" /\ DimsPositive) =>
        /\ Cardinality(NativeCalls) = 1
        /\ \A k \in NativeCalls :
              /\ (args.mask.t = "int" /\ args.mask.i > 0) => calls[k].f = "Mask"
              /\ (args.mask.t = "absent" \/ (args.mask.t = "int" /\ args.mask.i = 0)) => calls[k].f = "Overlay"
              /\ (ret = RetTuple(<<2>>)) <=> (calls[k].r = TRUE)

\* C8: with a non-null engine handle and positive dimensions, an image from
\* which no pointer can be extracted makes Process and Overlay fail with the
\* invalid-argument error (the pointer message when the arguments parse)
\* without a native call; the pointer bridge is called only when the handle
\* is non-null and both dimensions are positive.
C8_BadPointerRejected ==
    /\ (IsOperation /\ net # NULL /\ DimsPositive /\ PyCUDA_GetPointer(args.image) = NULL) =>
          /\ Failed("InvalidArgument")
          /\ OperationArgsGiven => err = ERR_POINTER
          /\ NativeCalls = {}
    /\ IsOperation =>
          \A k \in 1..Len(calls) : calls[k].f = "GetPointer" => (net # NULL /\ DimsPositive)

\* Overlay in mask mode with an object that is no capsule
C8_Witness ==
    /\ op = "Overlay" /\ net # NULL /\ DimsPositive
    /\ args.image = Other /\ args.mask = PyInt(1)
    /\ Len(calls) = 1 /\ calls[1].f = "GetPointer" /\ calls[1].r = NULL
    /\ err = ERR_POINTER

\* C9: the wrapper's net field and the base object's net field always hold
\* the same value.
C9_NetFieldsAgree == net = baseNet

\* C10: an argument vector allocated by construct is released before
\* construct returns.
C10_ArgvReleased == (op = "Init" /\ argvAlloc) => ~argvLive

====
